---- MODULE Spec2Model ----
(***************************************************************************)
(* Model of tutorial_quanvolution.py: the quanvolution transform quanv,    *)
(* the circuit it evaluates on the default.qubit device, and the script    *)
(* around it (seeding, parameter draw, pre-processing loops, the .npy      *)
(* cache, plotting and training hand-over).                                *)
(*                                                                         *)
(* Numbers.  Pixel values are taken from {0, 1} and rotation angles are    *)
(* counted in units of pi and restricted to {0, 1}: RY(pi * 0) is the      *)
(* identity and RY(pi * 1) maps |0> to |1>, so the register stays in a     *)
(* computational basis state, written as 4 bits, and the expectation of    *)
(* PauliZ on a wire is +1 for bit 0 and -1 for bit 1.                      *)
(***************************************************************************)
EXTENDS Integers, Sequences, FiniteSets, TLC

(***************************************************************************)
(* Bounds of the model (the script uses n_train = 50, n_test = 30).        *)
(***************************************************************************)
n_train == 4
n_test == 1
MaxCalls == 3

(***************************************************************************)
(* Program constants.                                                      *)
(***************************************************************************)
n_layers == 1
n_wires == 4
SeedValue == 0
OutRows == 14
OutCols == 14
OutChannels == 4
RowStop == 28
ColStop == 28
Stride == 2
n_samples == 4

VARIABLES
    pc,              \* position of the script
    PREPROCESS,      \* the flag of line 104
    rng,             \* state of NumPy's global random generator
    rand_params,     \* the circuit parameter table, or Unbound
    dev,             \* register of the default.qubit device after its last run
    train_images,    \* sequence of input images
    test_images,
    q_train_images,  \* Unbound, a list of tensor references, or an array
    q_test_images,
    idx,             \* index of the pre-processing loop
    files,           \* SAVE_PATH: file name -> blob or Absent
    q_history,       \* what q_model.fit was handed, or Unbound
    c_history,       \* what c_model.fit was handed, or Unbound
    error,           \* the uncaught exception that ended the script, or "none"
    heap,            \* the arrays allocated by np.zeros, by reference
    image,           \* quanv: its argument
    out,             \* quanv: reference of its output tensor
    j,               \* quanv: outer loop variable
    k,               \* quanv: inner loop variable
    qpc,             \* quanv: "idle", "loop", "returned" or "raised"
    evals,           \* quanv: the patches handed to circuit() in this call
    calls            \* completed calls of quanv made by a library user

vars == <<pc, PREPROCESS, rng, rand_params, dev, train_images, test_images,
          q_train_images, q_test_images, idx, files, q_history, c_history,
          error, heap,
          image, out, j, k, qpc, evals, calls>>

scriptVars == <<pc, PREPROCESS, rng, rand_params, train_images, test_images,
                q_train_images, q_test_images, idx, files, q_history,
                c_history, error>>

Unbound == [kind |-> "unbound"]
Absent == [kind |-> "absent"]

(***************************************************************************)
(* NumPy arrays: a shape and the elements in C (row-major) order.          *)
(* Indices are 0-based as in the source.                                   *)
(***************************************************************************)
RECURSIVE Prod(_)
Prod(s) == IF s = << >> THEN 1 ELSE Head(s) * Prod(Tail(s))

RECURSIVE Off(_, _, _)
Off(shape, ix, d) ==
    IF d = 0 THEN 0 ELSE Off(shape, ix, d - 1) * shape[d] + ix[d]

Offset(shape, ix) == Off(shape, ix, Len(shape))

NdArray(shape, data) == [kind |-> "ndarray", shape |-> shape, data |-> data]

Zeros(shape) == NdArray(shape, [i \in 1..Prod(shape) |-> 0])

InBounds(arr, ix) ==
    /\ Len(ix) = Len(arr.shape)
    /\ \A d \in 1..Len(ix) : 0 <= ix[d] /\ ix[d] < arr.shape[d]

GetItem(arr, ix) == arr.data[1 + Offset(arr.shape, ix)]

SetItem(arr, ix, v) ==
    [arr EXCEPT !.data[1 + Offset(arr.shape, ix)] = v]

(***************************************************************************)
(* NumPy's global random generator, as a small linear congruential         *)
(* generator.  np.random.seed(s) sets the state from s alone;              *)
(* np.random.uniform(high = 2 pi, size = (n_layers, 4)) consumes           *)
(* n_layers * 4 steps and yields, in units of pi, values in {0, 1}.        *)
(***************************************************************************)
NpSeed(s) == (s * 7) % 16

RngNext(s) == (5 * s + 3) % 16

RngValue(s) == s \div 8

RECURSIVE RngSkip(_, _)
RngSkip(s, n) == IF n = 0 THEN s ELSE RngSkip(RngNext(s), n - 1)

Uniform(s, rows, cols) ==
    [l \in 1..rows |->
        [w \in 1..cols |-> RngValue(RngSkip(s, (l - 1) * cols + w))]]

(***************************************************************************)
(* The qnode circuit(phi) on dev.  A run resets the register to the        *)
(* ground state, applies RY(pi * phi[j]) on wire j, the random layers and  *)
(* measures PauliZ on every wire.  RandomLayers, whose gate placement the  *)
(* library derives from its own fixed seed, is modelled by one fixed       *)
(* placement: per layer, the rotation with parameter w on wire w, followed *)
(* by a CNOT from wire 0 to wire 1.  Wires 0..3 are positions 1..4.        *)
(***************************************************************************)
Ground == [w \in 1..n_wires |-> 0]

Flip(b, a) == (b + a) % 2

Encode(reg, phi) == [w \in 1..n_wires |-> Flip(reg[w], phi[w])]

Layer(reg, row) ==
    LET rot == [w \in 1..n_wires |-> Flip(reg[w], row[w])]
    IN  [rot EXCEPT ![2] = Flip(rot[2], rot[1])]

RECURSIVE RandomLayers(_, _, _)
RandomLayers(reg, params, l) ==
    IF l > Len(params) THEN reg
    ELSE RandomLayers(Layer(reg, params[l]), params, l + 1)

\* Mutant: the register is not reset before a run.
PrepareKeep(reg) == reg

Prepare(reg) == Ground

\* Mutant: the run starts from the state the last run left on the device.
CircuitRunStateful(reg, params, phi) ==
    RandomLayers(Encode(reg, phi), params, 1)

CircuitRun(reg, params, phi) ==
    RandomLayers(Encode(Prepare(reg), phi), params, 1)

ExpvalZ(reg) == [w \in 1..n_wires |-> 1 - 2 * reg[w]]

(***************************************************************************)
(* quanv(image), lines 183-202.                                            *)
(***************************************************************************)
\* Mutant: the patch is read column by column.
PatchIndicesSwapped(jj, kk) ==
    << <<jj, kk, 0>>, <<jj + 1, kk, 0>>, <<jj, kk + 1, 0>>, <<jj + 1, kk + 1, 0>> >>

PatchIndices(jj, kk) ==
    << <<jj, kk, 0>>, <<jj, kk + 1, 0>>, <<jj + 1, kk, 0>>, <<jj + 1, kk + 1, 0>> >>

OutIndex(jj, kk, c) == <<jj \div 2, kk \div 2, c>>

RECURSIVE Assign(_, _, _, _, _)
Assign(t, jj, kk, res, c) ==
    IF c = 4 THEN t
    ELSE Assign(SetItem(t, OutIndex(jj, kk, c), res[c + 1]), jj, kk, res, c + 1)

\* Mutant: the outer loop advances by two strides.
AdvanceSkipRow(jj, kk) ==
    IF kk + Stride < ColStop THEN <<jj, kk + Stride>> ELSE <<jj + Stride + Stride, 0>>

\* The next values of (j, k): range(0, 28, 2) nested in range(0, 28, 2).
Advance(jj, kk) ==
    IF kk + Stride < ColStop THEN <<jj, kk + Stride>> ELSE <<jj + Stride, 0>>

\* Mutant: one module-level output buffer, zeroed and reused by every call.
QuanvEnterReuse(img) ==
    /\ qpc = "idle"
    /\ image' = img
    /\ heap' = IF heap = << >>
               THEN <<Zeros(<<OutRows, OutCols, OutChannels>>)>>
               ELSE [heap EXCEPT ![1] = Zeros(<<OutRows, OutCols, OutChannels>>)]
    /\ out' = 1
    /\ j' = 0
    /\ k' = 0
    /\ evals' = << >>
    /\ qpc' = "loop"
    /\ dev' = dev

\* Line 185 and the loop entry: a fresh output tensor, j = k = 0.
QuanvEnter(img) ==
    /\ qpc = "idle"
    /\ image' = img
    /\ heap' = Append(heap, Zeros(<<OutRows, OutCols, OutChannels>>))
    /\ out' = Len(heap) + 1
    /\ j' = 0
    /\ k' = 0
    /\ evals' = << >>
    /\ qpc' = "loop"
    /\ dev' = dev

\* One iteration of the inner loop, lines 189-201.
QuanvPatch ==
    /\ qpc = "loop"
    /\ j < RowStop
    /\ LET ixs == PatchIndices(j, k)
       IN  IF \E i \in 1..4 : ~InBounds(image, ixs[i])
           THEN \* image[...] raises IndexError; nothing is returned
                /\ qpc' = "raised"
                /\ UNCHANGED <<dev, heap, j, k, evals>>
           ELSE LET phi == [i \in 1..4 |-> GetItem(image, ixs[i])]
                    reg == CircuitRun(dev, rand_params, phi)
                    q_results == ExpvalZ(reg)
                IN  /\ dev' = reg
                    /\ heap' = [heap EXCEPT ![out] = Assign(@, j, k, q_results, 0)]
                    /\ evals' = Append(evals, <<j, k>>)
                    /\ j' = Advance(j, k)[1]
                    /\ k' = Advance(j, k)[2]
                    /\ qpc' = qpc
    /\ UNCHANGED <<image, out, calls>>
    /\ UNCHANGED scriptVars

\* Line 202.
QuanvReturn ==
    /\ qpc = "loop"
    /\ j >= RowStop
    /\ qpc' = "returned"
    /\ UNCHANGED <<dev, heap, image, out, j, k, evals, calls>>
    /\ UNCHANGED scriptVars

(***************************************************************************)
(* Input images.                                                           *)
(***************************************************************************)
Texture(pat, r, c) == IF (3 * r + pat * c) % 5 < 2 THEN 1 ELSE 0

\* Pattern 0 is pattern 1 in the upper 14 rows and 0 below.
Pixel(pat, r, c) ==
    IF pat = 0 THEN (IF r < 14 THEN Texture(1, r, c) ELSE 0)
    ELSE Texture(pat, r, c)

Img(h, w, pat) ==
    NdArray(<<h, w, 1>>,
            [i \in 1..(h * w) |-> Pixel(pat, (i - 1) \div w, (i - 1) % w)])

\* Images a user of quanv may pass: the MNIST size and other sizes.
UserImages ==
    {Img(28, 28, 1), Img(28, 28, 0), Img(30, 30, 1), Img(27, 28, 1), Img(4, 4, 1)}

(***************************************************************************)
(* quanv as a library function: the module has been executed up to line    *)
(* 202 (generator seeded, parameters drawn) and quanv is called on         *)
(* arbitrary images, one call after the other.                             *)
(***************************************************************************)
SeededTable == Uniform(NpSeed(SeedValue), n_layers, n_wires)

InitQuanv ==
    /\ pc = "lib"
    /\ PREPROCESS = TRUE
    /\ rng = RngSkip(NpSeed(SeedValue), n_layers * n_wires)
    /\ rand_params = SeededTable
    /\ dev = Ground
    /\ train_images = << >>
    /\ test_images = << >>
    /\ q_train_images = Unbound
    /\ q_test_images = Unbound
    /\ idx = 0
    /\ files = [f \in {"q_train_images.npy", "q_test_images.npy"} |-> Absent]
    /\ q_history = Unbound
    /\ c_history = Unbound
    /\ error = "none"
    /\ heap = << >>
    /\ image = Unbound
    /\ out = 0
    /\ j = 0
    /\ k = 0
    /\ qpc = "idle"
    /\ evals = << >>
    /\ calls = << >>

CallQuanv ==
    /\ pc = "lib"
    /\ Len(calls) < MaxCalls
    /\ \E img \in UserImages : QuanvEnter(img)
    /\ UNCHANGED calls
    /\ UNCHANGED scriptVars

Collect ==
    /\ pc = "lib"
    /\ qpc \in {"returned", "raised"}
    /\ calls' = Append(calls,
                       [image |-> image,
                        result |-> IF qpc = "returned" THEN out ELSE 0,
                        raised |-> IF qpc = "raised" THEN "IndexError" ELSE "none"])
    /\ qpc' = "idle"
    /\ UNCHANGED <<dev, heap, image, out, j, k, evals>>
    /\ UNCHANGED scriptVars

NextQuanv == CallQuanv \/ QuanvPatch \/ QuanvReturn \/ Collect

SpecQuanv == InitQuanv /\ [][NextQuanv]_vars

(***************************************************************************)
(* The .npy cache.  np.save writes a header (dtype, order, shape) and the  *)
(* elements as little-endian float64; of each element the model keeps the  *)
(* sign and exponent bits (bits 63..52), the fraction being 0 for the      *)
(* values -1, 0 and 1.  np.load parses the header and decodes the payload. *)
(***************************************************************************)
TrainFile == "q_train_images.npy"
TestFile == "q_test_images.npy"

F64Bits(v) == IF v = 0 THEN 0 ELSE (IF v < 0 THEN 2048 ELSE 0) + 1023

\* Mutant: the sign bit is dropped when decoding.
F64ValueUnsigned(b) ==
    LET expo == b % 2048
    IN  IF expo = 0 THEN 0 ELSE 2 ^ (expo - 1023)

F64Value(b) ==
    LET sign == b \div 2048
        expo == b % 2048
    IN  IF expo = 0 THEN 0 ELSE (1 - 2 * sign) * (2 ^ (expo - 1023))

NpSave(arr) ==
    [kind |-> "npy", descr |-> "<f8", fortran_order |-> FALSE,
     shape |-> arr.shape,
     payload |-> [i \in 1..Len(arr.data) |-> F64Bits(arr.data[i])]]

NpLoad(blob) ==
    NdArray(blob.shape, [i \in 1..Len(blob.payload) |-> F64Value(blob.payload[i])])

\* np.asarray on a list of equally shaped tensors: a new array, one more axis.
RECURSIVE Concat(_, _)
Concat(refs, h) ==
    IF refs = << >> THEN << >> ELSE h[Head(refs)].data \o Concat(Tail(refs), h)

AsArray(refs, h) ==
    NdArray(<<Len(refs)>> \o h[refs[1]].shape, Concat(refs, h))

PyList(items) == [kind |-> "list", items |-> items]

\* A cache file left by an earlier run: present, with other contents.
StaleBlob(n) == NpSave(Zeros(<<n, OutRows, OutCols, OutChannels>>))

(***************************************************************************)
(* The dataset provider: n_train and n_test images of 28 x 28 x 1.         *)
(***************************************************************************)
Datasets == {0, 1}

TrainSet(d) == [i \in 1..n_train |-> Img(28, 28, 2 * i + d)]

TestSet(d) == [i \in 1..n_test |-> Img(28, 28, 2 * (n_train + i) + d)]

(***************************************************************************)
(* The script, lines 92-366.                                               *)
(***************************************************************************)
quanvVars == <<dev, heap, image, out, j, k, qpc, evals>>

Init ==
    /\ pc = "seed"
    /\ PREPROCESS \in BOOLEAN
    /\ rng \in {5, 9}
    /\ rand_params = Unbound
    /\ dev = Ground
    /\ train_images = << >>
    /\ test_images = << >>
    /\ q_train_images = Unbound
    /\ q_test_images = Unbound
    /\ idx = 0
    /\ files \in [{TrainFile, TestFile} -> {Absent, StaleBlob(n_train)}]
    /\ q_history = Unbound
    /\ c_history = Unbound
    /\ error = "none"
    /\ heap = << >>
    /\ image = Unbound
    /\ out = 0
    /\ j = 0
    /\ k = 0
    /\ qpc = "idle"
    /\ evals = << >>
    /\ calls = << >>

\* Mutant: the generator is left unseeded.
SeedNot ==
    /\ pc = "seed"
    /\ rng' = rng
    /\ pc' = "load_data"
    /\ UNCHANGED <<PREPROCESS, rand_params, train_images, test_images,
                   q_train_images, q_test_images, idx, files, q_history,
                   c_history, error, calls>>
    /\ UNCHANGED quanvVars

\* Line 105.
Seed ==
    /\ pc = "seed"
    /\ rng' = NpSeed(SeedValue)
    /\ pc' = "load_data"
    /\ UNCHANGED <<PREPROCESS, rand_params, train_images, test_images,
                   q_train_images, q_test_images, idx, files, q_history,
                   c_history, error, calls>>
    /\ UNCHANGED quanvVars

\* Lines 115-130.
LoadData ==
    /\ pc = "load_data"
    /\ \E d \in Datasets :
          /\ train_images' = TrainSet(d)
          /\ test_images' = TestSet(d)
    /\ pc' = "draw"
    /\ UNCHANGED <<PREPROCESS, rng, rand_params, q_train_images, q_test_images,
                   idx, files, q_history, c_history, error, calls>>
    /\ UNCHANGED quanvVars

\* Line 152.
DrawParams ==
    /\ pc = "draw"
    /\ rand_params' = Uniform(rng, n_layers, n_wires)
    /\ rng' = RngSkip(rng, n_layers * n_wires)
    /\ pc' = "branch"
    /\ UNCHANGED <<PREPROCESS, train_images, test_images, q_train_images,
                   q_test_images, idx, files, q_history, c_history, error, calls>>
    /\ UNCHANGED quanvVars

\* Lines 218-219.
Branch ==
    /\ pc = "branch"
    /\ IF PREPROCESS
       THEN /\ q_train_images' = PyList(<< >>)
            /\ pc' = "train_loop"
       ELSE /\ q_train_images' = q_train_images
            /\ pc' = "load_train"
    /\ idx' = 0
    /\ UNCHANGED <<PREPROCESS, rng, rand_params, train_images, test_images,
                   q_test_images, files, q_history, c_history, error, calls>>
    /\ UNCHANGED quanvVars

\* Lines 221-223: the call quanv(img).
TrainCall ==
    /\ pc = "train_loop"
    /\ idx < Len(train_images)
    /\ QuanvEnter(train_images[idx + 1])
    /\ UNCHANGED calls
    /\ UNCHANGED scriptVars

\* Line 223: append of the returned tensor; an exception ends the script.
TrainAppend ==
    /\ pc = "train_loop"
    /\ qpc \in {"returned", "raised"}
    /\ IF qpc = "returned"
       THEN /\ q_train_images' = PyList(Append(q_train_images.items, out))
            /\ idx' = idx + 1
            /\ UNCHANGED <<pc, error>>
       ELSE /\ pc' = "crashed"
            /\ error' = "IndexError"
            /\ UNCHANGED <<q_train_images, idx>>
    /\ qpc' = "idle"
    /\ UNCHANGED <<PREPROCESS, rng, rand_params, train_images, test_images,
                   q_test_images, files, q_history, c_history, calls>>
    /\ UNCHANGED <<dev, heap, image, out, j, k, evals>>

\* Lines 224-226.
TrainStack ==
    /\ pc = "train_loop"
    /\ qpc = "idle"
    /\ idx = Len(train_images)
    /\ q_train_images' = AsArray(q_train_images.items, heap)
    /\ q_test_images' = PyList(<< >>)
    /\ idx' = 0
    /\ pc' = "test_loop"
    /\ UNCHANGED <<PREPROCESS, rng, rand_params, train_images, test_images,
                   files, q_history, c_history, error, calls>>
    /\ UNCHANGED quanvVars

\* Lines 228-230.
TestCall ==
    /\ pc = "test_loop"
    /\ idx < Len(test_images)
    /\ QuanvEnter(test_images[idx + 1])
    /\ UNCHANGED calls
    /\ UNCHANGED scriptVars

TestAppend ==
    /\ pc = "test_loop"
    /\ qpc \in {"returned", "raised"}
    /\ IF qpc = "returned"
       THEN /\ q_test_images' = PyList(Append(q_test_images.items, out))
            /\ idx' = idx + 1
            /\ UNCHANGED <<pc, error>>
       ELSE /\ pc' = "crashed"
            /\ error' = "IndexError"
            /\ UNCHANGED <<q_test_images, idx>>
    /\ qpc' = "idle"
    /\ UNCHANGED <<PREPROCESS, rng, rand_params, train_images, test_images,
                   q_train_images, files, q_history, c_history, calls>>
    /\ UNCHANGED <<dev, heap, image, out, j, k, evals>>

\* Line 231.
TestStack ==
    /\ pc = "test_loop"
    /\ qpc = "idle"
    /\ idx = Len(test_images)
    /\ q_test_images' = AsArray(q_test_images.items, heap)
    /\ pc' = "save_train"
    /\ UNCHANGED <<PREPROCESS, rng, rand_params, train_images, test_images,
                   q_train_images, idx, files, q_history, c_history, error, calls>>
    /\ UNCHANGED quanvVars

\* Line 234.
SaveTrain ==
    /\ pc = "save_train"
    /\ files' = [files EXCEPT ![TrainFile] = NpSave(q_train_images)]
    /\ pc' = "save_test"
    /\ UNCHANGED <<PREPROCESS, rng, rand_params, train_images, test_images,
                   q_train_images, q_test_images, idx, q_history, c_history,
                   error, calls>>
    /\ UNCHANGED quanvVars

\* Line 235.
SaveTest ==
    /\ pc = "save_test"
    /\ files' = [files EXCEPT ![TestFile] = NpSave(q_test_images)]
    /\ pc' = "load_train"
    /\ UNCHANGED <<PREPROCESS, rng, rand_params, train_images, test_images,
                   q_train_images, q_test_images, idx, q_history, c_history,
                   error, calls>>
    /\ UNCHANGED quanvVars

\* Mutant: a missing file is read as an empty array.
LoadTrainLenient ==
    /\ pc = "load_train"
    /\ q_train_images' = IF files[TrainFile] = Absent
                         THEN Zeros(<<0, OutRows, OutCols, OutChannels>>)
                         ELSE NpLoad(files[TrainFile])
    /\ pc' = "load_test"
    /\ UNCHANGED <<PREPROCESS, rng, rand_params, train_images, test_images,
                   q_test_images, idx, files, q_history, c_history, error, calls>>
    /\ UNCHANGED quanvVars

\* Line 239: np.load raises FileNotFoundError on a missing file; the script
\* has no handler, so the exception ends it.
LoadTrain ==
    /\ pc = "load_train"
    /\ IF files[TrainFile] = Absent
       THEN /\ pc' = "crashed"
            /\ error' = "FileNotFoundError"
            /\ UNCHANGED q_train_images
       ELSE /\ q_train_images' = NpLoad(files[TrainFile])
            /\ pc' = "load_test"
            /\ UNCHANGED error
    /\ UNCHANGED <<PREPROCESS, rng, rand_params, train_images, test_images,
                   q_test_images, idx, files, q_history, c_history, calls>>
    /\ UNCHANGED quanvVars

\* Line 240.
LoadTest ==
    /\ pc = "load_test"
    /\ IF files[TestFile] = Absent
       THEN /\ pc' = "crashed"
            /\ error' = "FileNotFoundError"
            /\ UNCHANGED q_test_images
       ELSE /\ q_test_images' = NpLoad(files[TestFile])
            /\ pc' = "plot"
            /\ UNCHANGED error
    /\ UNCHANGED <<PREPROCESS, rng, rand_params, train_images, test_images,
                   q_train_images, idx, files, q_history, c_history, calls>>
    /\ UNCHANGED quanvVars

\* Lines 246-263: the first n_samples train images and their features are
\* indexed; an index past the first axis raises IndexError.
Plot ==
    /\ pc = "plot"
    /\ IF n_samples <= Len(train_images) /\ n_samples <= q_train_images.shape[1]
       THEN pc' = "fit_q" /\ UNCHANGED error
       ELSE pc' = "crashed" /\ error' = "IndexError"
    /\ UNCHANGED <<PREPROCESS, rng, rand_params, train_images, test_images,
                   q_train_images, q_test_images, idx, files, q_history,
                   c_history, calls>>
    /\ UNCHANGED quanvVars

\* Lines 312-321: the features handed to training.
FitQuantum ==
    /\ pc = "fit_q"
    /\ q_history' = [x |-> q_train_images, validation_x |-> q_test_images]
    /\ pc' = "fit_c"
    /\ UNCHANGED <<PREPROCESS, rng, rand_params, train_images, test_images,
                   q_train_images, q_test_images, idx, files, c_history,
                   error, calls>>
    /\ UNCHANGED quanvVars

\* Lines 328-366.
FitClassical ==
    /\ pc = "fit_c"
    /\ c_history' = [x |-> train_images, validation_x |-> test_images]
    /\ pc' = "done"
    /\ UNCHANGED <<PREPROCESS, rng, rand_params, train_images, test_images,
                   q_train_images, q_test_images, idx, files, q_history,
                   error, calls>>
    /\ UNCHANGED quanvVars

Next ==
    \/ Seed \/ LoadData \/ DrawParams \/ Branch
    \/ TrainCall \/ TrainAppend \/ TrainStack
    \/ TestCall \/ TestAppend \/ TestStack
    \/ QuanvPatch \/ QuanvReturn
    \/ SaveTrain \/ SaveTest \/ LoadTrain \/ LoadTest
    \/ Plot \/ FitQuantum \/ FitClassical

Spec == Init /\ [][Next]_vars

(***************************************************************************)
(* Properties.                                                             *)
(***************************************************************************)
Evens(n) == {x \in 0..(n - 1) : x % 2 = 0}

Height(img) == img.shape[1]
Width(img) == img.shape[2]

\* The 4 pixels of the patch at (jj, kk), in the order of lines 193-196.
PatchOf(img, jj, kk) ==
    <<img.data[1 + jj * Width(img) + kk],
      img.data[1 + jj * Width(img) + kk + 1],
      img.data[1 + (jj + 1) * Width(img) + kk],
      img.data[1 + (jj + 1) * Width(img) + kk + 1]>>

\* Channel c of the cell (r, col) of a 14 x 14 x 4 tensor.
Cell(t, r, col, c) == t.data[1 + (r * 14 + col) * 4 + c]

\* Expectation values of a circuit started in the ground state.
Reference(params, phi) ==
    LET enc == [w \in 1..4 |-> (phi[w] + params[1][w]) % 2]
    IN  <<1 - 2 * enc[1], 1 - 2 * ((enc[1] + enc[2]) % 2),
          1 - 2 * enc[3], 1 - 2 * enc[4]>>

Ended == qpc \in {"returned", "raised"}

\* C1: for any image of shape (H, W, 1) with H and W even and >= 2, quanv
\* returns a tensor of shape (H/2, W/2, 4).
C1_ShapeLaw ==
    (Ended /\ Height(image) % 2 = 0 /\ Width(image) % 2 = 0
           /\ Height(image) >= 2 /\ Width(image) >= 2)
        => (/\ qpc = "returned"
            /\ heap[out].shape = <<Height(image) \div 2, Width(image) \div 2, 4>>)

\* C2: for every patch (j, k) the loop visits, the circuit is fed the pixels
\* image[j,k], image[j,k+1], image[j+1,k], image[j+1,k+1] in this order and
\* its output number c is stored in cell (j/2, k/2, c).
C2_PatchOrder ==
    qpc = "returned" =>
        \A jj \in Evens(28), kk \in Evens(28), c \in 0..3 :
            Cell(heap[out], jj \div 2, kk \div 2, c)
                = Reference(rand_params, PatchOf(image, jj, kk))[c + 1]

C2_Witness ==
    /\ qpc = "returned"
    /\ image.shape = <<28, 28, 1>>
    /\ \E jj \in Evens(28), kk \in Evens(28) :
          PatchOf(image, jj, kk)[2] # PatchOf(image, jj, kk)[3]

Returned(a) == calls[a].raised = "none"

SamePatch(a, b, jj, kk) ==
    PatchOf(calls[a].image, jj, kk) = PatchOf(calls[b].image, jj, kk)

\* C3: two calls on images that agree on the 4 pixels of the patch at
\* (j, k) give the same 4 values in cell (j/2, k/2), whatever the rest of
\* the images and whatever was evaluated before.
C3_PatchIndependence ==
    qpc = "idle" =>
        \A a, b \in 1..Len(calls) :
            (Returned(a) /\ Returned(b)) =>
                \A jj \in Evens(28), kk \in Evens(28) :
                    SamePatch(a, b, jj, kk) =>
                        \A c \in 0..3 :
                            Cell(heap[calls[a].result], jj \div 2, kk \div 2, c)
                              = Cell(heap[calls[b].result], jj \div 2, kk \div 2, c)

C3_Witness ==
    /\ qpc = "idle"
    /\ Len(calls) >= 2
    /\ Returned(1) /\ Returned(2)
    /\ calls[1].image.shape = calls[2].image.shape
    /\ SamePatch(1, 2, 0, 0)
    /\ ~SamePatch(1, 2, 26, 26)

\* C4: two calls of quanv on the same image, anywhere in a run, end the same
\* way and return identical tensors.
C4_Determinism ==
    qpc = "idle" =>
        \A a, b \in 1..Len(calls) :
            calls[a].image = calls[b].image =>
                /\ calls[a].raised = calls[b].raised
                /\ Returned(a) => heap[calls[a].result] = heap[calls[b].result]

C4_Witness ==
    /\ qpc = "idle"
    /\ Len(calls) = 3
    /\ Returned(1)
    /\ calls[1].image = calls[3].image
    /\ calls[2].image # calls[1].image
    /\ Returned(2)
    /\ calls[1].result # calls[3].result

\* C6: a call of quanv on an image of a size the loop does not handle (any
\* size but 28 x 28 x 1) ends in an error and returns no tensor.
C6_FailFast ==
    (Ended /\ image.shape # <<28, 28, 1>>) => qpc = "raised"

\* C8: quanv changes neither its input image nor rand_params, and writes
\* only to the tensor it allocated: tensors returned by earlier calls keep
\* their contents and are never handed out again.
C8_NoSideEffect ==
    [][/\ qpc # "idle" => image' = image
       /\ rand_params' = rand_params
       /\ \A a \in 1..Len(calls) :
             /\ calls'[a] = calls[a]
             /\ Returned(a) => heap'[calls[a].result] = heap[calls[a].result]
             /\ (qpc = "idle" /\ qpc' = "loop") => out' # calls[a].result]_vars

C8_Witness ==
    /\ qpc = "returned"
    /\ Len(calls) >= 1
    /\ Returned(1)
    /\ heap[out] # heap[calls[1].result]

ReadBy(e) == {ix[1] * 28 + ix[2] : ix \in {PatchIndices(e[1], e[2])[i] : i \in 1..4}}

WrittenBy(e) == {Offset(<<14, 14, 4>>, OutIndex(e[1], e[2], c)) : c \in 0..3}

AllOf(S) == UNION {S[i] : i \in DOMAIN S}

\* C9: on a 28 x 28 x 1 image quanv does not fail and returns after exactly
\* 196 circuit evaluations, one per (j, k) with j, k in {0, 2, ..., 26};
\* every pixel is read by exactly one evaluation and every one of the
\* 14 x 14 x 4 output cells is written exactly once.  (196 evaluations of 4
\* reads and 4 writes each that reach all 784 pixels and all 784 cells
\* reach each of them exactly once.)
C9_ExactCover ==
    (qpc # "idle" /\ image.shape = <<28, 28, 1>>) =>
        /\ qpc # "raised"
        /\ Len(evals) <= 196
        /\ qpc = "returned" =>
            /\ Len(evals) = 196
            /\ {evals[i] : i \in 1..Len(evals)} = Evens(28) \X Evens(28)
            /\ \A i \in 1..Len(evals) :
                  /\ Cardinality(ReadBy(evals[i])) = 4
                  /\ Cardinality(WrittenBy(evals[i])) = 4
            /\ AllOf([i \in 1..Len(evals) |-> ReadBy(evals[i])]) = 0..783
            /\ AllOf([i \in 1..Len(evals) |-> WrittenBy(evals[i])]) = 0..783

C9_Witness ==
    /\ qpc = "returned"
    /\ image.shape = <<28, 28, 1>>
    /\ Len(evals) = 196

\* The features of a batch of 28 x 28 x 1 images, computed directly.
FeaturesOf(images, arr) ==
    /\ arr.kind = "ndarray"
    /\ arr.shape = <<Len(images), 14, 14, 4>>
    /\ \A n \in 1..Len(images), r \in 0..13, col \in 0..13, c \in 0..3 :
          arr.data[1 + (((n - 1) * 14 + r) * 14 + col) * 4 + c]
            = Reference(rand_params, PatchOf(images[n], 2 * r, 2 * col))[c + 1]

AfterLoad == pc \in {"plot", "fit_q", "fit_c", "done"}

\* C5: in a run with PREPROCESS true each cache file is saved before it is
\* loaded, and the arrays read back and handed to training are exactly the
\* features of the train and test images, in dataset order.
C5_CacheRoundTrip ==
    PREPROCESS =>
        /\ pc \in {"load_train", "load_test"} =>
              \A f \in {TrainFile, TestFile} :
                  files[f] # Absent /\ files[f] # StaleBlob(n_train)
        /\ pc = "load_test" => FeaturesOf(train_images, q_train_images)
        /\ AfterLoad =>
              /\ FeaturesOf(train_images, q_train_images)
              /\ FeaturesOf(test_images, q_test_images)
        /\ q_history # Unbound =>
              /\ FeaturesOf(train_images, q_history.x)
              /\ FeaturesOf(test_images, q_history.validation_x)

C5_Witness ==
    /\ PREPROCESS
    /\ pc = "done"
    /\ q_history # Unbound
    /\ q_history.x = q_train_images

CacheMiss ==
    /\ ~PREPROCESS
    /\ files[TrainFile] = Absent \/ files[TestFile] = Absent

StopsAtLoad ==
    /\ ~AfterLoad
    /\ q_history = Unbound
    /\ files[TrainFile] = Absent => q_train_images = Unbound
    /\ files[TestFile] = Absent => q_test_images = Unbound
    /\ pc = "crashed" <=> error # "none"

\* C7 as stated: on a cache miss with PREPROCESS false the run stops at the
\* load step, nothing is passed on, and the error is the dedicated
\* "cache not found, set preprocess=true" diagnostic.
C7_DedicatedDiagnostic ==
    CacheMiss =>
        /\ StopsAtLoad
        /\ pc = "crashed" => error = "cache not found, set preprocess=true"

\* C7 amended: on a cache miss with PREPROCESS false the run stops at the
\* load step, before plotting and training, nothing is passed on, and the
\* error is the FileNotFoundError raised by np.load.
C7_StopsWithFileNotFound ==
    CacheMiss =>
        /\ StopsAtLoad
        /\ pc = "crashed" => error = "FileNotFoundError"

C7_Witness ==
    /\ CacheMiss
    /\ pc = "crashed"
    /\ files[TrainFile] # Absent
    /\ q_train_images # Unbound

BeforeDraw == pc \in {"seed", "load_data", "draw"}

\* C10: rand_params is drawn once, from the generator as seeded with the
\* explicit seed, before the first circuit evaluation, and stays that table
\* for every later evaluation.
C10_ParamsDrawnOnce ==
    /\ BeforeDraw => (rand_params = Unbound /\ heap = << >> /\ evals = << >>)
    /\ pc \in {"load_data", "draw"} => rng = NpSeed(SeedValue)
    /\ ~BeforeDraw =>
          /\ rand_params = SeededTable
          /\ rng = RngSkip(NpSeed(SeedValue), n_layers * n_wires)

C10_Witness ==
    /\ pc = "test_loop"
    /\ qpc = "loop"
    /\ Len(evals) > 0
    /\ rand_params = SeededTable

====
